---- MODULE Spec2Model ----
(***************************************************************************)
(* Model of the EdgeFinder heatmap widget: the retrying HTTP client        *)
(* (src/src/lib/api/client.ts), the response transformer                   *)
(* (src/src/lib/types/backend.ts) and the polling component                *)
(* (src/unnamed/part_001, EdgeFinderHeatmap.svelte).                       *)
(*                                                                         *)
(* Conventions.  An optional value (undefined / null in the source) is a   *)
(* sequence: None is <<>> and Some(x) is <<x>>.  An error message is a     *)
(* sequence of strings, the pieces the source concatenates.  A JSON array  *)
(* that the source tests with Array.isArray is a record with the fields    *)
(* isArray and items.                                                      *)
(***************************************************************************)
EXTENDS Integers, Sequences, FiniteSets, TLC

VARIABLES
    config,           \* the component's prop `config` (HeatmapConfig)
    apiClient,        \* the HeatmapApiClient built from config
    server,           \* what the remote endpoint can answer to one attempt
    calls,            \* getHeatmap calls: call id -> position in fetchWithRetry
    batches,          \* getMultipleHeatmaps calls: batch id -> promise state
    cycles,           \* loadData invocations: cycle id -> position in loadData
    state,            \* the store `state` (HeatmapState)
    lifecycle,        \* "created", "mounted" or "destroyed"
    refreshInterval,  \* the component's timer handle, None or Some(id)
    timerActive,      \* whether the interval timer is still scheduled
    clock,            \* logical time: the number of cycle starts and ends
    args,             \* the arguments of a function of backend.ts applied alone
    result            \* None, or Some(what that function returned)

vars == <<config, apiClient, server, calls, batches, cycles, state,
          lifecycle, refreshInterval, timerActive, clock, args, result>>

-----------------------------------------------------------------------------
(* Bounds of the model *)

\* config.maxRetries ranges over absent and 0..MaxConfigRetries
MaxConfigRetries == 2

\* normalizeScore is applied to scores of -MaxScore..MaxScore
MaxScore == 6

\* and to scales [min, max] with min and max of -MaxScale..MaxScale
MaxScale == 5

\* transformBackendResponse is applied to responses whose components have
\* scores of -MaxComponentScore..MaxComponentScore
MaxComponentScore == 2

\* and to responses with a total score of -MaxTotalScore..MaxTotalScore
MaxTotalScore == 16

\* loadData is started at most MaxCycles times in one run
MaxCycles == 2

\* and its cycles start at most MaxCalls getHeatmap calls in all
MaxCalls == 4

\* getMultipleHeatmaps is checked on symbol lists of length 0..MaxSymbols
MaxSymbols == 2

-----------------------------------------------------------------------------
(* Optional values *)

None == <<>>

Some(x) == <<x>>

\* the value of a Some
The(o) == o[1]

\* f with the value at key k replaced or added
Put(f, k, v) == [x \in (DOMAIN f) \cup {k} |-> IF x = k THEN v ELSE f[x]]

\* the function with an empty domain (an empty object / map)
EmptyMap == [x \in {} |-> 0]

-----------------------------------------------------------------------------
(* backend.ts: normalizeScore, getBias, transformBackendResponse *)

\* normalizeScore with thresholds exclusive on their upper bound
normalizeScoreExclusive(score, scale) ==
    LET min == scale[1]
        max == scale[2]
        n   == score - min
        d   == max - min
        lt(p) == IF d > 0 THEN 10 * n < p * d
                 ELSE IF d < 0 THEN 10 * n > p * d
                 ELSE n < 0
    IN  IF lt(1) THEN -2
        ELSE IF lt(3) THEN -1
        ELSE IF lt(7) THEN 0
        ELSE IF lt(9) THEN 1
        ELSE 2

\* normalizeScore returning the score as it is, without bucketing
normalizeScoreUnbucketed(score, scale) == score

\* normalizeScore(score, [min, max]) on integers.  The quotient
\* t = (score - min) / (max - min) is compared with 0.1, 0.3, 0.7 and 0.9;
\* with d = max - min the comparison t <= p/10 is 10*(score-min) <= p*d for
\* d > 0 and the reverse for d < 0.  For d = 0 the quotient is +Infinity,
\* -Infinity or NaN, and the comparisons are those of IEEE 754.
normalizeScore(score, scale) ==
    LET min == scale[1]
        max == scale[2]
        n   == score - min
        d   == max - min
        le(p) == IF d > 0 THEN 10 * n <= p * d
                 ELSE IF d < 0 THEN 10 * n >= p * d
                 ELSE n < 0
    IN  IF le(1) THEN -2
        ELSE IF le(3) THEN -1
        ELSE IF le(7) THEN 0
        ELSE IF le(9) THEN 1
        ELSE 2

\* getBias with thresholds that exclude their bound
getBiasExclusive(score) ==
    IF score > 15 THEN "Very Bullish"
    ELSE IF score > 8 THEN "Bullish"
    ELSE IF score > -7 THEN "Neutral"
    ELSE IF score > -15 THEN "Bearish"
    ELSE "Very Bearish"

getBias(score) ==
    IF score >= 15 THEN "Very Bullish"
    ELSE IF score >= 8 THEN "Bullish"
    ELSE IF score >= -7 THEN "Neutral"
    ELSE IF score >= -15 THEN "Bearish"
    ELSE "Very Bearish"

\* the pillar name compared as it is, without toLowerCase
toLowerCaseIdentity(s) == s

\* String.prototype.toLowerCase on the pillar names of the model
toLowerCase(s) ==
    CASE s = "Sentiment" -> "sentiment"
      [] s = "SENTIMENT" -> "sentiment"
      [] s = "Technical" -> "technical"
      [] s = "Economic"  -> "economic"
      [] OTHER -> s

\* pillar.components.forEach of a pillar without a components list, or
\* pillar.name.toLowerCase of a pillar without a name, throws a TypeError
PillarThrows(pillar) ==
    \/ "components" \notin DOMAIN pillar
    \/ /\ Len(pillar.components) > 0
       /\ "name" \notin DOMAIN pillar

\* the first pillar (in order) on which the forEach throws, 0 when none does
RECURSIVE FirstThrowing(_, _)
FirstThrowing(pillars, i) ==
    IF i > Len(pillars) THEN 0
    ELSE IF PillarThrows(pillars[i]) THEN i
    ELSE FirstThrowing(pillars, i + 1)

\* whether transformBackendResponse(response) throws
TransformThrows(response) == FirstThrowing(response.pillars.items, 1) # 0

TransformError == <<"Cannot read properties of undefined">>

\* the inner forEach: the components of one pillar written into `map`
RECURSIVE PutComponents(_, _, _, _)
PutComponents(map, components, scale, i) ==
    IF i > Len(components) THEN map
    ELSE PutComponents(
            Put(map, components[i].key,
                normalizeScore(components[i].score, scale)),
            components, scale, i + 1)

\* the outer forEach: maps is [sentiment, technical, economic]
RECURSIVE PutPillars(_, _, _, _)
PutPillars(maps, pillars, scale, i) ==
    IF i > Len(pillars) THEN maps
    ELSE LET p    == pillars[i]
             name == IF Len(p.components) > 0 THEN toLowerCase(p.name) ELSE ""
             next ==
                IF name \in {"sentiment", "technical", "economic"}
                THEN [maps EXCEPT ![name] =
                        PutComponents(maps[name], p.components, scale, 1)]
                ELSE maps
         IN  PutPillars(next, pillars, scale, i + 1)

\* transformBackendResponse normalizing the total score like a component
transformBackendResponseNormalizesScore(response) ==
    LET maps == PutPillars(
                    [sentiment |-> EmptyMap, technical |-> EmptyMap,
                     economic |-> EmptyMap],
                    response.pillars.items, response.scale.items, 1)
    IN  [asset       |-> response.asset,
         bias        |-> getBias(response.score),
         score       |-> normalizeScore(response.score, response.scale.items),
         sentiment   |-> maps.sentiment,
         technical   |-> maps.technical,
         economic    |-> maps.economic,
         lastUpdated |-> response.as_of]

\* transformBackendResponse(response), for a response on which it returns
transformBackendResponse(response) ==
    LET maps == PutPillars(
                    [sentiment |-> EmptyMap, technical |-> EmptyMap,
                     economic |-> EmptyMap],
                    response.pillars.items, response.scale.items, 1)
    IN  [asset       |-> response.asset,
         bias        |-> getBias(response.score),
         score       |-> response.score,
         sentiment   |-> maps.sentiment,
         technical   |-> maps.technical,
         economic    |-> maps.economic,
         lastUpdated |-> response.as_of]

\* responses.map(transformBackendResponse), for responses that all transform
RECURSIVE MapTransform(_)
MapTransform(responses) ==
    IF responses = <<>> THEN <<>>
    ELSE <<transformBackendResponse(Head(responses))>>
            \o MapTransform(Tail(responses))

\* whether responses.map(transformBackendResponse) throws
MapTransformThrows(responses) ==
    \E i \in 1..Len(responses) : TransformThrows(responses[i])

-----------------------------------------------------------------------------
(* Decoded JSON bodies.  An object is a record of its keys; an array is    *)
(* Arr(items); any other value is Primitive(type, falsy).  The fields      *)
(* asset, score, as_of and version, which no code inspects by type, are    *)
(* plain strings and integers.                                             *)

Arr(items) == [isArray |-> TRUE, items |-> items]

Primitive(type, falsy) == [primitive |-> type, falsy |-> falsy]

\* Array.isArray(v)
IsArray(v) == "isArray" \in DOMAIN v

\* typeof v
TypeOf(v) ==
    IF "primitive" \in DOMAIN v
    THEN (IF v.primitive = "null" THEN "object" ELSE v.primitive)
    ELSE "object"

\* !v
Falsy(v) == "primitive" \in DOMAIN v /\ v.falsy

\* `field in data` for a truthy data of type object
HasField(data, field) ==
    IF IsArray(data) THEN field \in {"length"} ELSE field \in DOMAIN data

\* v without the key k
Without(v, k) == [x \in (DOMAIN v) \ {k} |-> v[x]]

-----------------------------------------------------------------------------
(* client.ts: validateResponse *)

Returns(v) == [ok |-> TRUE, value |-> v, error |-> None]

Throws(e) == [ok |-> FALSE, value |-> None, error |-> e]

required == <<"asset", "score", "scale", "pillars", "as_of", "version">>

\* the first required field (in order) that is not in data, 0 when none
RECURSIVE FirstMissing(_, _)
FirstMissing(data, i) ==
    IF i > Len(required) THEN 0
    ELSE IF ~HasField(data, required[i]) THEN i
    ELSE FirstMissing(data, i + 1)

\* validateResponse accepting a scale of any length
validateResponseAnyLength(data) ==
    IF Falsy(data) \/ TypeOf(data) # "object"
    THEN Throws(<<"Invalid response format">>)
    ELSE IF FirstMissing(data, 1) # 0
    THEN Throws(<<"Missing required field: ", required[FirstMissing(data, 1)]>>)
    ELSE IF ~IsArray(data.pillars)
    THEN Throws(<<"Pillars must be an array">>)
    ELSE IF ~IsArray(data.scale)
    THEN Throws(<<"Scale must be a tuple of two numbers">>)
    ELSE Returns(data)

validateResponse(data) ==
    IF Falsy(data) \/ TypeOf(data) # "object"
    THEN Throws(<<"Invalid response format">>)
    ELSE IF FirstMissing(data, 1) # 0
    THEN Throws(<<"Missing required field: ", required[FirstMissing(data, 1)]>>)
    ELSE IF ~IsArray(data.pillars)
    THEN Throws(<<"Pillars must be an array">>)
    ELSE IF ~IsArray(data.scale) \/ Len(data.scale.items) # 2
    THEN Throws(<<"Scale must be a tuple of two numbers">>)
    ELSE Returns(data)

-----------------------------------------------------------------------------
(* The remote endpoint.  One attempt is answered by a transport failure or *)
(* by a response with a status and a body; the body is None when it is not *)
(* JSON.  The samples follow the mock data of client.ts:83-189.            *)

Symbols == {"EUR", "USD"}

ScoreOf(asset) == IF asset = "USD" THEN 10 ELSE -4

WellFormed(asset, asOf) ==
    [asset   |-> asset,
     score   |-> ScoreOf(asset),
     scale   |-> Arr(<<-24, 24>>),
     pillars |-> Arr(<<
        [name |-> "sentiment", score |-> 3,
         components |-> <<[key |-> "cot", score |-> 1],
                          [key |-> "retailPos", score |-> 2]>>],
        [name |-> "technical", score |-> 3,
         components |-> <<[key |-> "trend", score |-> 2]>>],
        [name |-> "economic", score |-> 4,
         components |-> <<[key |-> "gdp", score |-> 1]>>] >>),
     as_of   |-> asOf,
     version |-> "2025.08.1"]

\* passes validateResponse, but its pillar has no components list
NoComponents(asset, asOf) ==
    [WellFormed(asset, asOf) EXCEPT
        !.pillars = Arr(<<[name |-> "sentiment", score |-> 3]>>)]

Transport == [kind |-> "transport", status |-> 0, statusText |-> "", body |-> None]

Response(status, statusText, body) ==
    [kind |-> "response", status |-> status, statusText |-> statusText,
     body |-> body]

AnswerKinds ==
    {"ok", "noComponents", "transport", "http404", "http500", "notJson",
     "null", "number", "array", "noPillars", "pillarsNotArray", "scaleLen3"}

\* the answer of the given kind to a request for `asset` made at time asOf
Answer(kind, asset, asOf) ==
    CASE kind = "ok" -> Response(200, "OK", Some(WellFormed(asset, asOf)))
      [] kind = "noComponents" ->
            Response(200, "OK", Some(NoComponents(asset, asOf)))
      [] kind = "transport" -> Transport
      [] kind = "http404" -> Response(404, "Not Found", None)
      [] kind = "http500" -> Response(500, "Internal Server Error", None)
      [] kind = "notJson" -> Response(200, "OK", None)
      [] kind = "null" -> Response(200, "OK", Some(Primitive("null", TRUE)))
      [] kind = "number" -> Response(200, "OK", Some(Primitive("number", FALSE)))
      [] kind = "array" -> Response(200, "OK", Some(Arr(<<>>)))
      [] kind = "noPillars" ->
            Response(200, "OK", Some(Without(WellFormed(asset, asOf), "pillars")))
      [] kind = "pillarsNotArray" ->
            Response(200, "OK", Some([WellFormed(asset, asOf) EXCEPT
                !.pillars = Primitive("string", FALSE)]))
      [] kind = "scaleLen3" ->
            Response(200, "OK", Some([WellFormed(asset, asOf) EXCEPT
                !.scale = Arr(<<-24, 0, 24>>)]))

-----------------------------------------------------------------------------
(* client.ts: constructor, fetchWithRetry, delay *)

DefaultMaxRetries == 3

\* new HeatmapApiClient(config): `config.maxRetries || 3`
HeatmapApiClient(cfg) ==
    [maxRetries |->
        IF cfg.maxRetries # None /\ The(cfg.maxRetries) # 0
        THEN The(cfg.maxRetries)
        ELSE DefaultMaxRetries]

\* response.ok
Ok(response) == response.status >= 200 /\ response.status <= 299

\* the try block of fetchWithRetry (client.ts:29-43) on one answer
tryBlock(answer) ==
    IF answer.kind = "transport"
    THEN Throws(<<"Failed to fetch">>)
    ELSE IF ~Ok(answer)
    THEN Throws(<<"HTTP ", ToString(answer.status), ": ", answer.statusText>>)
    ELSE IF answer.body = None
    THEN Throws(<<"Unexpected token in JSON">>)
    ELSE validateResponse(The(answer.body))

\* a getHeatmap call that has just issued its first fetch.  attempts counts
\* the fetch calls issued, waits lists the delays started (ms) and caught
\* the errors caught, in order.
NewCall(asset, startedAt) ==
    [asset |-> asset, startedAt |-> startedAt, retries |-> 0, pc |-> "fetch",
     attempts |-> 1, waits |-> <<>>, caught |-> <<>>,
     value |-> None, reason |-> None]

\* catchBlock retrying once more than the limit (`retries <= this.maxRetries`)
catchBlockOneMore(call, error, maxRetries) ==
    IF call.retries <= maxRetries
    THEN [call EXCEPT !.pc = "delay",
                      !.caught = Append(@, error),
                      !.waits = Append(@, (2 ^ call.retries) * 1000)]
    ELSE [call EXCEPT !.pc = "rejected",
                      !.caught = Append(@, error),
                      !.reason = error]

\* catchBlock with a linear backoff (`(retries + 1) * 1000`)
catchBlockLinear(call, error, maxRetries) ==
    IF call.retries < maxRetries
    THEN [call EXCEPT !.pc = "delay",
                      !.caught = Append(@, error),
                      !.waits = Append(@, (call.retries + 1) * 1000)]
    ELSE [call EXCEPT !.pc = "rejected",
                      !.caught = Append(@, error),
                      !.reason = error]

\* catchBlock that does not retry a validation failure
catchBlockNoRetryOfMissingField(call, error, maxRetries) ==
    IF call.retries < maxRetries /\ error[1] # "Missing required field: "
    THEN [call EXCEPT !.pc = "delay",
                      !.caught = Append(@, error),
                      !.waits = Append(@, (2 ^ call.retries) * 1000)]
    ELSE [call EXCEPT !.pc = "rejected",
                      !.caught = Append(@, error),
                      !.reason = error]

\* catchBlock that keeps the first error and throws it in the end
catchBlockThrowsFirst(call, error, maxRetries) ==
    IF call.retries < maxRetries
    THEN [call EXCEPT !.pc = "delay",
                      !.caught = Append(@, error),
                      !.waits = Append(@, (2 ^ call.retries) * 1000)]
    ELSE [call EXCEPT !.pc = "rejected",
                      !.caught = Append(@, error),
                      !.reason = Append(call.caught, error)[1]]

\* the catch block of fetchWithRetry (client.ts:44-50), up to its await
catchBlock(call, error, maxRetries) ==
    IF call.retries < maxRetries
    THEN [call EXCEPT !.pc = "delay",
                      !.caught = Append(@, error),
                      !.waits = Append(@, (2 ^ call.retries) * 1000)]
    ELSE [call EXCEPT !.pc = "rejected",
                      !.caught = Append(@, error),
                      !.reason = error]

\* the try block issuing one more fetch after the one that succeeded
returnValueRefetches(call, value) ==
    [call EXCEPT !.pc = "fulfilled", !.value = Some(value), !.attempts = @ + 1]

\* the return of the try block (client.ts:43)
returnValue(call, value) == [call EXCEPT !.pc = "fulfilled", !.value = Some(value)]

\* the delay is over: fetchWithRetry(url, retries + 1) issues the next fetch
retry(call) ==
    [call EXCEPT !.pc = "fetch", !.retries = @ + 1, !.attempts = @ + 1]

Settled(call) == call.pc \in {"fulfilled", "rejected"}

-----------------------------------------------------------------------------
(* client.ts: getMultipleHeatmaps *)

\* the getHeatmap calls of a batch, in the order of its symbols
Promises(cs, b, n) == [i \in 1..n |-> cs[<<b, i>>]]

\* .filter(result => result.status === 'fulfilled').map(result => result.value)
RECURSIVE FulfilledValues(_)
FulfilledValues(promises) ==
    IF promises = <<>> THEN <<>>
    ELSE (IF Head(promises).pc = "fulfilled"
          THEN <<The(Head(promises).value)>> ELSE <<>>)
         \o FulfilledValues(Tail(promises))

Pending(n) == [n |-> n, status |-> "pending", value |-> <<>>, reason |-> None]

Fulfilled(n, value) ==
    [n |-> n, status |-> "fulfilled", value |-> value, reason |-> None]

Rejected(n, reason) ==
    [n |-> n, status |-> "rejected", value |-> <<>>, reason |-> reason]

\* getMultipleHeatmaps awaiting Promise.all instead of Promise.allSettled
getMultipleHeatmapsAll(promises) ==
    LET n == Len(promises)
    IN  IF \E i \in 1..n : promises[i].pc = "rejected"
        THEN Rejected(n, promises[CHOOSE i \in 1..n :
                                    promises[i].pc = "rejected"].reason)
        ELSE IF \A i \in 1..n : promises[i].pc = "fulfilled"
        THEN Fulfilled(n, FulfilledValues(promises))
        ELSE Pending(n)

\* getMultipleHeatmaps returning with the first call that settles
getMultipleHeatmapsRace(promises) ==
    LET n == Len(promises)
    IN  IF n = 0 \/ \E i \in 1..n : Settled(promises[i])
        THEN Fulfilled(n, FulfilledValues(promises))
        ELSE Pending(n)

\* the promise of getMultipleHeatmaps (client.ts:17-26), given its calls:
\* pending until Promise.allSettled resolves, then fulfilled
getMultipleHeatmaps(promises) ==
    LET n == Len(promises)
    IN  IF \A i \in 1..n : Settled(promises[i])
        THEN Fulfilled(n, FulfilledValues(promises))
        ELSE Pending(n)

\* assets.map(asset => this.getHeatmap(asset)): every call issues its fetch
StartCalls(cs, b, assets, now) ==
    [id \in (DOMAIN cs) \cup {<<b, i>> : i \in 1..Len(assets)} |->
        IF id \in DOMAIN cs THEN cs[id] ELSE NewCall(assets[id[2]], now)]

\* the pending batches whose calls have all settled are resolved
Resolve(bs, cs) ==
    [b \in DOMAIN bs |->
        IF bs[b].status = "pending"
        THEN getMultipleHeatmaps(Promises(cs, b, bs[b].n))
        ELSE bs[b]]

-----------------------------------------------------------------------------
(* EdgeFinderHeatmap.svelte (src/unnamed/part_001): the store, loadData *)

InitialState ==
    [data |-> <<>>, loading |-> TRUE, error |-> None, lastUpdated |-> None]

\* one item put into a list sorted by descending score, after its equals
RECURSIVE Insert(_, _)
Insert(sorted, item) ==
    IF sorted = <<>> THEN <<item>>
    ELSE IF item.score > Head(sorted).score THEN <<item>> \o sorted
    ELSE <<Head(sorted)>> \o Insert(Tail(sorted), item)

\* data.sort((a, b) => b.score - a.score): a stable sort
RECURSIVE Sort(_)
Sort(data) ==
    IF data = <<>> THEN <<>>
    ELSE Insert(Sort(SubSeq(data, 1, Len(data) - 1)), data[Len(data)])

\* `$: sortedData = $state.data.sort(...)`: while the component is alive,
\* every change of the store sorts the array held in state.data in place
sortedData(s, lc) == IF lc = "mounted" THEN [s EXCEPT !.data = Sort(@)] ELSE s

\* loadData setting loading without resetting error
loadDataBeginKeepsError(s) == [s EXCEPT !.loading = TRUE]

\* loadData up to its await (part_001:58)
loadDataBegin(s) == [s EXCEPT !.loading = TRUE, !.error = None]

\* loadData adding the new items to data instead of replacing data
loadDataAfterAwaitAppends(s, batch, now) ==
    IF batch.status = "rejected"
    THEN [s EXCEPT !.loading = FALSE, !.error = batch.reason]
    ELSE IF MapTransformThrows(batch.value)
    THEN [s EXCEPT !.loading = FALSE, !.error = TransformError]
    ELSE [s EXCEPT !.data = @ \o MapTransform(batch.value),
                   !.loading = FALSE,
                   !.lastUpdated = Some(now)]

\* loadData discarding a result older than the data it would replace
loadDataAfterAwaitKeepsNewer(s, batch, now) ==
    IF batch.status = "rejected"
    THEN [s EXCEPT !.loading = FALSE, !.error = batch.reason]
    ELSE IF MapTransformThrows(batch.value)
    THEN [s EXCEPT !.loading = FALSE, !.error = TransformError]
    ELSE IF \E k \in 1..Len(s.data), j \in 1..Len(batch.value) :
                s.data[k].lastUpdated > batch.value[j].as_of
    THEN [s EXCEPT !.loading = FALSE]
    ELSE [s EXCEPT !.data = MapTransform(batch.value),
                   !.loading = FALSE,
                   !.lastUpdated = Some(now)]

\* loadData dropping the responses whose transformation throws
loadDataAfterAwaitDropsThrowing(s, batch, now) ==
    IF batch.status = "rejected"
    THEN [s EXCEPT !.loading = FALSE, !.error = batch.reason]
    ELSE [s EXCEPT !.data = MapTransform(
                        SelectSeq(batch.value, LAMBDA r : ~TransformThrows(r))),
                   !.loading = FALSE,
                   !.lastUpdated = Some(now)]

\* loadData patching data asset by asset instead of replacing it
loadDataAfterAwaitPatches(s, batch, now) ==
    IF batch.status = "rejected"
    THEN [s EXCEPT !.loading = FALSE, !.error = batch.reason]
    ELSE IF MapTransformThrows(batch.value)
    THEN [s EXCEPT !.loading = FALSE, !.error = TransformError]
    ELSE [s EXCEPT !.data =
                        SelectSeq(@, LAMBDA old :
                            \A j \in 1..Len(batch.value) :
                                batch.value[j].asset # old.asset)
                        \o MapTransform(batch.value),
                   !.loading = FALSE,
                   !.lastUpdated = Some(now)]

\* loadData clearing data and lastUpdated when the cycle fails
loadDataAfterAwaitClearsOnError(s, batch, now) ==
    IF batch.status = "rejected"
    THEN [s EXCEPT !.loading = FALSE, !.error = batch.reason,
                   !.data = <<>>, !.lastUpdated = None]
    ELSE IF MapTransformThrows(batch.value)
    THEN [s EXCEPT !.loading = FALSE, !.error = TransformError,
                   !.data = <<>>, !.lastUpdated = None]
    ELSE [s EXCEPT !.data = MapTransform(batch.value),
                   !.loading = FALSE,
                   !.lastUpdated = Some(now)]

\* loadData leaving loading as it is when the cycle fails
loadDataAfterAwaitLeavesLoading(s, batch, now) ==
    IF batch.status = "rejected"
    THEN [s EXCEPT !.error = batch.reason]
    ELSE IF MapTransformThrows(batch.value)
    THEN [s EXCEPT !.error = TransformError]
    ELSE [s EXCEPT !.data = MapTransform(batch.value),
                   !.loading = FALSE,
                   !.lastUpdated = Some(now)]

\* loadData after its await (part_001:62-76), the batch being settled
loadDataAfterAwait(s, batch, now) ==
    IF batch.status = "rejected"
    THEN [s EXCEPT !.loading = FALSE, !.error = batch.reason]
    ELSE IF MapTransformThrows(batch.value)
    THEN [s EXCEPT !.loading = FALSE, !.error = TransformError]
    ELSE [s EXCEPT !.data = MapTransform(batch.value),
                   !.loading = FALSE,
                   !.lastUpdated = Some(now)]

\* how the cycle ended
Outcome(batch) ==
    IF batch.status = "rejected" \/ MapTransformThrows(batch.value)
    THEN "error" ELSE "success"

\* The promise jobs that follow a task.  cs, bs, cy, s and now are the
\* calls, batches, cycles, store and clock the task leaves: the batches
\* whose calls have all settled resolve, and a loadData awaiting one of
\* them runs to its end.  No other task runs in between.
Microtasks(cs, bs, cy, s, now, lc) ==
    LET bs2  == Resolve(bs, cs)
        over == {c \in DOMAIN cy : cy[c].pc = "awaiting" /\ bs2[c].status # "pending"}
    IN  /\ calls' = cs
        /\ batches' = bs2
        /\ IF over = {}
           THEN /\ cycles' = cy
                /\ state' = s
                /\ clock' = now
           ELSE LET c == CHOOSE c \in over : TRUE
                IN  /\ cycles' = [cy EXCEPT ![c].pc = "done",
                                            ![c].outcome = Outcome(bs2[c]),
                                            ![c].endedAt = now + 1]
                    /\ state' = sortedData(
                                    loadDataAfterAwait(s, bs2[c], now + 1), lc)
                    /\ clock' = now + 1

unchangedComponent ==
    UNCHANGED <<config, apiClient, server, lifecycle, refreshInterval,
                timerActive, args, result>>

\* the attempt of call id is answered and the try block returns
AttemptReturns(id) ==
    /\ calls[id].pc = "fetch"
    /\ \E kind \in server :
        LET r == tryBlock(Answer(kind, calls[id].asset, calls[id].startedAt))
        IN  /\ r.ok
            /\ Microtasks([calls EXCEPT ![id] = returnValue(@, r.value)],
                          batches, cycles, state, clock, lifecycle)
    /\ unchangedComponent

\* the attempt of call id is answered and the try block throws
AttemptThrows(id) ==
    /\ calls[id].pc = "fetch"
    /\ \E kind \in server :
        LET r == tryBlock(Answer(kind, calls[id].asset, calls[id].startedAt))
        IN  /\ ~r.ok
            /\ Microtasks([calls EXCEPT ![id] =
                                catchBlock(@, r.error, apiClient.maxRetries)],
                          batches, cycles, state, clock, lifecycle)
    /\ unchangedComponent

\* the backoff delay of call id elapses
DelayElapsed(id) ==
    /\ calls[id].pc = "delay"
    /\ calls' = [calls EXCEPT ![id] = retry(@)]
    /\ UNCHANGED <<batches, cycles, state, clock>>
    /\ unchangedComponent

\* loadData() is called by onMount, by the timer or by a click: the store is
\* updated, the batch is started and loadData awaits it
LoadData(lc, by) ==
    LET c   == Cardinality(DOMAIN cycles) + 1
        now == clock + 1
    IN  /\ c <= MaxCycles
        /\ c * Len(config.assets) <= MaxCalls
        /\ Microtasks(
                StartCalls(calls, c, config.assets, now),
                Put(batches, c, Pending(Len(config.assets))),
                Put(cycles, c, [pc |-> "awaiting", by |-> by, startedAt |-> now,
                                outcome |-> "", endedAt |-> 0]),
                sortedData(loadDataBegin(state), lc),
                now, lc)

\* onMount scheduling the timer for every configured interval, 0 included
MountSchedulesAlways ==
    /\ lifecycle = "created"
    /\ lifecycle' = "mounted"
    /\ LoadData("mounted", "mount")
    /\ IF config.refreshInterval # None
       THEN refreshInterval' = Some(1) /\ timerActive' = TRUE
       ELSE UNCHANGED <<refreshInterval, timerActive>>
    /\ UNCHANGED <<config, apiClient, server, args, result>>

\* onMount (part_001:44-49)
Mount ==
    /\ lifecycle = "created"
    /\ lifecycle' = "mounted"
    /\ LoadData("mounted", "mount")
    /\ IF config.refreshInterval # None /\ The(config.refreshInterval) > 0
       THEN refreshInterval' = Some(1) /\ timerActive' = TRUE
       ELSE UNCHANGED <<refreshInterval, timerActive>>
    /\ UNCHANGED <<config, apiClient, server, args, result>>

\* the interval timer fires: setInterval(loadData, ...)
TimerTick ==
    /\ timerActive
    /\ LoadData(lifecycle, "timer")
    /\ unchangedComponent

\* a click on Refresh (disabled while loading) or on Retry (shown with an
\* error): on:click={loadData}
Refresh ==
    /\ lifecycle = "mounted"
    /\ ~state.loading \/ state.error # None
    /\ LoadData(lifecycle, "click")
    /\ unchangedComponent

\* onDestroy leaving the interval timer scheduled
DestroyKeepsTimer ==
    /\ lifecycle = "mounted"
    /\ lifecycle' = "destroyed"
    /\ UNCHANGED <<config, apiClient, server, calls, batches, cycles, state,
                   refreshInterval, timerActive, clock, args, result>>

\* onDestroy (part_001:51-55)
Destroy ==
    /\ lifecycle = "mounted"
    /\ lifecycle' = "destroyed"
    /\ IF refreshInterval # None
       THEN timerActive' = FALSE
       ELSE UNCHANGED timerActive
    /\ UNCHANGED <<config, apiClient, server, calls, batches, cycles, state,
                   refreshInterval, clock, args, result>>

-----------------------------------------------------------------------------
(* Initial states *)

MaxRetriesProps == {None} \cup {Some(n) : n \in 0..MaxConfigRetries}

InitWith(configs, answers) ==
    /\ config \in configs
    /\ apiClient = HeatmapApiClient(config)
    /\ server = answers
    /\ calls = EmptyMap
    /\ batches = EmptyMap
    /\ cycles = EmptyMap
    /\ state = InitialState
    /\ lifecycle = "created"
    /\ refreshInterval = None
    /\ timerActive = FALSE
    /\ clock = 0
    /\ args = None
    /\ result = None

-----------------------------------------------------------------------------
(* The client alone: one getHeatmap call, every kind of answer *)

DirectCall == <<0, 1>>

\* client.getHeatmap(asset) (client.ts:12-15)
GetHeatmap(asset) ==
    /\ DirectCall \notin DOMAIN calls
    /\ calls' = Put(calls, DirectCall, NewCall(asset, 0))
    /\ UNCHANGED <<batches, cycles, state, clock>>
    /\ unchangedComponent

ClientConfigs ==
    [maxRetries : MaxRetriesProps, refreshInterval : {None},
     assets : {<<"USD">>}]

InitClient == InitWith(ClientConfigs, AnswerKinds)

NextClient ==
    \/ \E a \in Symbols : GetHeatmap(a)
    \/ \E id \in DOMAIN calls : AttemptReturns(id)
    \/ \E id \in DOMAIN calls : AttemptThrows(id)
    \/ \E id \in DOMAIN calls : DelayElapsed(id)

SpecClient == InitClient /\ [][NextClient]_vars

-----------------------------------------------------------------------------
(* One batch: getMultipleHeatmaps on every symbol list up to MaxSymbols *)

RECURSIVE SymbolLists(_)
SymbolLists(n) ==
    IF n = 0 THEN {<<>>}
    ELSE SymbolLists(n - 1)
            \cup {Append(l, a) : l \in {x \in SymbolLists(n - 1) : Len(x) = n - 1},
                                 a \in Symbols}

DirectBatch == 0

\* client.getMultipleHeatmaps(config.assets) (client.ts:17-26)
GetMultipleHeatmaps ==
    /\ DirectBatch \notin DOMAIN batches
    /\ Microtasks(StartCalls(calls, DirectBatch, config.assets, 0),
                  Put(batches, DirectBatch, Pending(Len(config.assets))),
                  cycles, state, clock, lifecycle)
    /\ unchangedComponent

BatchConfigs ==
    [maxRetries : {Some(1)}, refreshInterval : {None},
     assets : SymbolLists(MaxSymbols)]

InitBatch == InitWith(BatchConfigs, {"ok", "http500", "noPillars"})

NextBatch ==
    \/ GetMultipleHeatmaps
    \/ \E id \in DOMAIN calls : AttemptReturns(id)
    \/ \E id \in DOMAIN calls : AttemptThrows(id)
    \/ \E id \in DOMAIN calls : DelayElapsed(id)

SpecBatch == InitBatch /\ [][NextBatch]_vars

-----------------------------------------------------------------------------
(* backend.ts alone: normalizeScore and transformBackendResponse applied   *)
(* to every input of a bounded set                                          *)

\* a response with the four components of the mock data (client.ts:83-189)
ResponseWith(scale, cot, retailPos, trend, gdp) ==
    [asset   |-> "USD",
     score   |-> ScoreOf("USD"),
     scale   |-> Arr(scale),
     pillars |-> Arr(<<
        [name |-> "sentiment", score |-> cot + retailPos,
         components |-> <<[key |-> "cot", score |-> cot],
                          [key |-> "retailPos", score |-> retailPos]>>],
        [name |-> "technical", score |-> trend,
         components |-> <<[key |-> "trend", score |-> trend]>>],
        [name |-> "economic", score |-> gdp,
         components |-> <<[key |-> "gdp", score |-> gdp]>>] >>),
     as_of   |-> 0,
     version |-> "2025.08.1"]

\* the scale of the endpoint, a narrow one, an empty one and a reversed one
ResponseScales == {<<-24, 24>>, <<-1, 1>>, <<0, 0>>, <<1, -1>>}

ComponentScores == -MaxComponentScore..MaxComponentScore

\* two calls normalizeScore(score, scale) with the same scale
NormalizeArgs ==
    [fn : {"normalizeScore"},
     scores : (-MaxScore..MaxScore) \X (-MaxScore..MaxScore),
     scale : (-MaxScale..MaxScale) \X (-MaxScale..MaxScale)]

\* one call transformBackendResponse(response)
TransformArgs ==
    {[fn |-> "transformBackendResponse",
      response |-> ResponseWith(scale, a, b, c, d)] :
        scale \in ResponseScales,
        a \in ComponentScores, b \in ComponentScores,
        c \in ComponentScores, d \in ComponentScores}

TotalScores == -MaxTotalScore..MaxTotalScore

\* one call transformBackendResponse(response), for every total score
ScoredArgs ==
    {[fn |-> "transformBackendResponse",
      response |-> [ResponseWith(scale, -2, 2, 2, 0) EXCEPT
                        !.asset = asset, !.score = score]] :
        scale \in ResponseScales, asset \in Symbols, score \in TotalScores}

\* names of pillars: the three of the switch in several spellings, and one
\* that is none of them
PillarNames ==
    {"sentiment", "Sentiment", "SENTIMENT", "technical", "Technical",
     "economic", "Economic", "macro"}

\* response with its pillars named names[1], names[2], ...
Renamed(response, names) ==
    [response EXCEPT !.pillars =
        Arr([i \in 1..Len(response.pillars.items) |->
                [response.pillars.items[i] EXCEPT !.name = names[i]]])]

\* one call transformBackendResponse(response), for every naming of the
\* three pillars
NamedArgs ==
    {[fn |-> "transformBackendResponse",
      response |-> Renamed(ResponseWith(<<-1, 1>>, -2, 2, 2, 0), names)] :
        names \in PillarNames \X PillarNames \X PillarNames}

unchangedBackend ==
    UNCHANGED <<config, apiClient, server, calls, batches, cycles, state,
                lifecycle, refreshInterval, timerActive, clock, args>>

\* normalizeScore(score, scale) for both scores of the arguments
NormalizeScore ==
    /\ result = None
    /\ The(args).fn = "normalizeScore"
    /\ result' = Some([k \in 1..2 |->
                        normalizeScore(The(args).scores[k], The(args).scale)])
    /\ unchangedBackend

\* transformBackendResponse(response)
TransformBackendResponse ==
    /\ result = None
    /\ The(args).fn = "transformBackendResponse"
    /\ result' = IF TransformThrows(The(args).response)
                 THEN Some([error |-> TransformError])
                 ELSE Some(transformBackendResponse(The(args).response))
    /\ unchangedBackend

InitBackend ==
    /\ config = [maxRetries |-> None, refreshInterval |-> None,
                 assets |-> <<>>]
    /\ apiClient = HeatmapApiClient(config)
    /\ server = {}
    /\ calls = EmptyMap
    /\ batches = EmptyMap
    /\ cycles = EmptyMap
    /\ state = InitialState
    /\ lifecycle = "created"
    /\ refreshInterval = None
    /\ timerActive = FALSE
    /\ clock = 0
    /\ args \in {Some(a) : a \in NormalizeArgs \cup TransformArgs
                                    \cup ScoredArgs \cup NamedArgs}
    /\ result = None

NextBackend ==
    \/ NormalizeScore
    \/ TransformBackendResponse

SpecBackend == InitBackend /\ [][NextBackend]_vars

-----------------------------------------------------------------------------
(* validateResponse alone, applied to decoded payloads of every shape: a   *)
(* payload is a primitive, an array or an object with some of the required *)
(* keys, whose pillars and scale are of several shapes.                    *)

PayloadKinds ==
    {"null", "undefined", "zero", "number", "emptyString", "string",
     "false", "true", "array", "object"}

PillarsKinds == {"array", "empty", "string", "object", "null"}

ScaleKinds ==
    {"pair", "triple", "single", "empty", "pairOfStrings", "string",
     "object", "null"}

RequiredKeys == {required[i] : i \in 1..Len(required)}

PillarsOf(kind) ==
    CASE kind = "array"  -> WellFormed("USD", 0).pillars
      [] kind = "empty"  -> Arr(<<>>)
      [] kind = "string" -> Primitive("string", FALSE)
      [] kind = "object" -> [name |-> "sentiment", score |-> 3]
      [] kind = "null"   -> Primitive("null", TRUE)

ScaleOf(kind) ==
    CASE kind = "pair"   -> Arr(<<-24, 24>>)
      [] kind = "triple" -> Arr(<<-24, 0, 24>>)
      [] kind = "single" -> Arr(<<24>>)
      [] kind = "empty"  -> Arr(<<>>)
      [] kind = "pairOfStrings" ->
            Arr(<<Primitive("string", FALSE), Primitive("string", FALSE)>>)
      [] kind = "string" -> Primitive("string", FALSE)
      [] kind = "object" -> [min |-> -24, max |-> 24]
      [] kind = "null"   -> Primitive("null", TRUE)

\* the value of key k in an object payload
FieldOf(k, pillars, scale) ==
    CASE k = "asset"   -> "USD"
      [] k = "score"   -> ScoreOf("USD")
      [] k = "scale"   -> ScaleOf(scale)
      [] k = "pillars" -> PillarsOf(pillars)
      [] k = "as_of"   -> 0
      [] k = "version" -> "2025.08.1"

\* the decoded payload of the given kind
Payload(kind, keys, pillars, scale) ==
    CASE kind = "null"        -> Primitive("null", TRUE)
      [] kind = "undefined"   -> Primitive("undefined", TRUE)
      [] kind = "zero"        -> Primitive("number", TRUE)
      [] kind = "number"      -> Primitive("number", FALSE)
      [] kind = "emptyString" -> Primitive("string", TRUE)
      [] kind = "string"      -> Primitive("string", FALSE)
      [] kind = "false"       -> Primitive("boolean", TRUE)
      [] kind = "true"        -> Primitive("boolean", FALSE)
      [] kind = "array"       -> Arr(<<>>)
      [] kind = "object"      -> [k \in keys |-> FieldOf(k, pillars, scale)]

\* validateResponse(data)
ValidateResponse ==
    /\ result = None
    /\ The(args).fn = "validateResponse"
    /\ result' = Some(validateResponse(The(args).data))
    /\ UNCHANGED <<config, apiClient, server, calls, batches, cycles, state,
                   lifecycle, refreshInterval, timerActive, clock, args>>

InitValidator ==
    /\ config = [maxRetries |-> None, refreshInterval |-> None,
                 assets |-> <<>>]
    /\ apiClient = HeatmapApiClient(config)
    /\ server = {}
    /\ calls = EmptyMap
    /\ batches = EmptyMap
    /\ cycles = EmptyMap
    /\ state = InitialState
    /\ lifecycle = "created"
    /\ refreshInterval = None
    /\ timerActive = FALSE
    /\ clock = 0
    /\ \E kind \in PayloadKinds, keys \in SUBSET RequiredKeys,
          pillars \in PillarsKinds, scale \in ScaleKinds :
        /\ kind # "object" => keys = {}
        /\ "pillars" \notin keys => pillars = "array"
        /\ "scale" \notin keys => scale = "pair"
        /\ args = Some([fn |-> "validateResponse", kind |-> kind,
                        keys |-> keys, pillars |-> pillars, scale |-> scale,
                        data |-> Payload(kind, keys, pillars, scale)])
    /\ result = None

NextValidator == ValidateResponse

SpecValidator == InitValidator /\ [][NextValidator]_vars

-----------------------------------------------------------------------------
(* The component: mount, timer ticks, clicks, answers, destroy *)

ComponentConfigs ==
    [maxRetries : {Some(1)},
     refreshInterval : {None, Some(0), Some(30000)},
     assets : {<<"USD">>, <<"EUR", "USD">>}]

Init == InitWith(ComponentConfigs, {"ok", "noComponents", "http500"})

Next ==
    \/ Mount
    \/ TimerTick
    \/ Refresh
    \/ Destroy
    \/ \E id \in DOMAIN calls : AttemptReturns(id)
    \/ \E id \in DOMAIN calls : AttemptThrows(id)
    \/ \E id \in DOMAIN calls : DelayElapsed(id)

Spec == Init /\ [][Next]_vars

\* the calls loadData can start within the bounds
CallIds == (1..MaxCycles) \X (1..MaxSymbols)

\* call id has a fetch that is not answered yet
FetchPending(id) == id \in DOMAIN calls /\ calls[id].pc = "fetch"

\* the pending delay of call id elapses
Waited(id) ==
    /\ id \in DOMAIN calls
    /\ DelayElapsed(id)

\* The component with an endpoint that answers every fetch and timers that
\* fire.  A fetch stays pending until its answer (AttemptReturns or
\* AttemptThrows) and a setTimeout until it fires (DelayElapsed), so that
\* each finishes is: no fetch is pending forever, and the delay step is
\* taken when it stays enabled.
SpecLive ==
    /\ Spec
    /\ \A id \in CallIds : []<>(~FetchPending(id))
    /\ \A id \in CallIds : WF_vars(Waited(id))

-----------------------------------------------------------------------------
(* Claims about one getHeatmap call, checked under SpecClient *)

\* the errors a call has caught are all the given one
AllCaught(call, error) ==
    \A k \in 1..Len(call.caught) : call.caught[k] = error

\* C2: a getHeatmap call whose attempts all fail issues exactly
\* 1 + maxRetries fetches and only then fails: a failed call has made
\* 1 + maxRetries attempts, a call that has failed 1 + maxRetries times has
\* failed, and no call ever makes more attempts than that.
C2_ExactlyOnePlusMaxRetriesAttempts ==
    \A id \in DOMAIN calls :
        LET call == calls[id]
        IN  /\ call.attempts <= 1 + apiClient.maxRetries
            /\ call.pc = "rejected" => call.attempts = 1 + apiClient.maxRetries
            /\ Len(call.caught) = 1 + apiClient.maxRetries => call.pc = "rejected"

\* C2 witness: a call has failed after more than one attempt, each failed
C2_Witness ==
    \E id \in DOMAIN calls :
        /\ calls[id].pc = "rejected"
        /\ calls[id].attempts > 1
        /\ Len(calls[id].caught) = calls[id].attempts

\* C3 (as claimed): the configured maxRetries is the retry limit for every
\* non-negative integer, 0 included, and 3 is the limit when none is
\* configured: no call makes more than 1 + the configured number of attempts.
C3_ConfiguredMaxRetriesHonoured ==
    LET limit == IF config.maxRetries = None THEN DefaultMaxRetries
                 ELSE The(config.maxRetries)
    IN  \A id \in DOMAIN calls :
            /\ calls[id].attempts <= 1 + limit
            /\ limit = 0 => calls[id].waits = <<>>

\* C4: the wait before the k-th retry is 2^(k-1) seconds: the first wait is
\* 1000 ms, each later one is twice the one before, there are as many waits
\* as retries (none before the first attempt, none after the final failure)
\* and never more than maxRetries.
C4_BackoffDoubles ==
    \A id \in DOMAIN calls :
        LET call == calls[id]
        IN  /\ \A k \in 1..Len(call.waits) :
                    call.waits[k] = IF k = 1 THEN 1000 ELSE 2 * call.waits[k - 1]
            /\ Len(call.waits) <= apiClient.maxRetries
            /\ call.pc = "delay" => Len(call.waits) = call.attempts
            /\ call.pc # "delay" => Len(call.waits) = call.attempts - 1

\* C4 witness: a call has failed for good after waits of 1 s, 2 s and 4 s
C4_Witness ==
    \E id \in DOMAIN calls :
        /\ calls[id].pc = "rejected"
        /\ calls[id].waits = <<1000, 2000, 4000>>

MissingPillars == <<"Missing required field: ", "pillars">>

\* C5: every kind of failure uses up one attempt of the same budget: each
\* failed attempt short of the limit is followed by a delay and a retry,
\* whatever was caught, and a call fails only with its 1 + maxRetries-th
\* failure; a call whose every answer lacked the pillars key fails with the
\* validation error.
C5_EveryFailureKindRetried ==
    \A id \in DOMAIN calls :
        LET call == calls[id]
        IN  /\ call.pc = "rejected" => Len(call.caught) = 1 + apiClient.maxRetries
            /\ call.pc = "delay" => Len(call.caught) = call.attempts
            /\ call.pc = "fetch" => Len(call.caught) = call.attempts - 1
            /\ (call.pc = "rejected" /\ AllCaught(call, MissingPillars))
                    => call.reason = MissingPillars

\* C5 witness: a call failed after retries, every answer lacking pillars
C5_Witness ==
    \E id \in DOMAIN calls :
        /\ calls[id].pc = "rejected"
        /\ Len(calls[id].caught) > 1
        /\ AllCaught(calls[id], MissingPillars)

\* C6: a call that fails raises the error of its last attempt, and a call
\* that has not failed has raised nothing.
C6_LastErrorSurfaced ==
    \A id \in DOMAIN calls :
        LET call == calls[id]
        IN  /\ call.pc = "rejected" => call.reason = call.caught[Len(call.caught)]
            /\ call.pc # "rejected" => call.reason = None

\* C6 witness: a call failed, and its last error differs from its first
\* and from the one before the last
C6_Witness ==
    \E id \in DOMAIN calls :
        LET call == calls[id]
        IN  /\ call.pc = "rejected"
            /\ Len(call.caught) >= 3
            /\ call.reason # call.caught[1]
            /\ call.reason # call.caught[Len(call.caught) - 1]

-----------------------------------------------------------------------------
(* Claims about one getMultipleHeatmaps call, checked under SpecBatch *)

\* the indices of the calls of batch b that are fulfilled, in order
FulfilledIndices(b) ==
    SelectSeq([i \in 1..batches[b].n |-> i],
              LAMBDA i : calls[<<b, i>>].pc = "fulfilled")

\* C7: getMultipleHeatmaps never fails, and what it returns is exactly the
\* validated responses of the calls that succeeded, in the order of the
\* symbols, the failed calls dropped: the empty sequence when all failed.
C7_BatchNeverFails ==
    \A b \in DOMAIN batches :
        /\ batches[b].status # "rejected"
        /\ batches[b].status = "fulfilled" =>
            LET idx == FulfilledIndices(b)
            IN  /\ Len(batches[b].value) = Len(idx)
                /\ \A k \in 1..Len(idx) :
                    /\ batches[b].value[k] = The(calls[<<b, idx[k]>>].value)
                    /\ validateResponse(batches[b].value[k]).ok
                    /\ batches[b].value[k].asset = config.assets[idx[k]]

\* C7 witness: a batch has returned, one of its calls failed, one succeeded
C7_Witness ==
    \E b \in DOMAIN batches :
        /\ batches[b].status = "fulfilled"
        /\ \E i, j \in 1..batches[b].n :
            /\ calls[<<b, i>>].pc = "rejected"
            /\ calls[<<b, j>>].pc = "fulfilled"

\* C8: every call of a batch has issued its fetch from the moment the batch
\* exists, and the batch has returned exactly when all of its calls have
\* settled, a failed one only after its 1 + maxRetries attempts.
C8_BatchWaitsForAll ==
    \A b \in DOMAIN batches :
        /\ \A i \in 1..batches[b].n :
            /\ <<b, i>> \in DOMAIN calls
            /\ calls[<<b, i>>].attempts >= 1
        /\ batches[b].status # "pending" <=>
            \A i \in 1..batches[b].n :
                /\ Settled(calls[<<b, i>>])
                /\ calls[<<b, i>>].pc = "rejected" =>
                        calls[<<b, i>>].attempts = 1 + apiClient.maxRetries

\* C8 witness: one call of a batch has failed for good while another one is
\* still being retried, and the batch has not returned
C8_Witness ==
    \E b \in DOMAIN batches :
        /\ batches[b].status = "pending"
        /\ \E i, j \in 1..batches[b].n :
            /\ calls[<<b, i>>].pc = "rejected"
            /\ calls[<<b, j>>].pc = "delay"

-----------------------------------------------------------------------------
(* Claims about the component, checked under Spec *)

\* cycle c ends in this step
Ends(c) == cycles[c].pc = "awaiting" /\ cycles'[c].pc = "done"

\* the assets of the calls of cycle c that are fulfilled
FulfilledAssets(c) ==
    {calls[<<c, i>>].asset :
        i \in {j \in 1..batches[c].n : calls[<<c, j>>].pc = "fulfilled"}}

\* the assets in a list of display assets
AssetsOf(data) == {data[k].asset : k \in 1..Len(data)}

\* C1 (as claimed): once the component is destroyed, a cycle that was in
\* flight changes nothing in the store when it ends.
C1_NoMutationAfterStop ==
    [][\A c \in DOMAIN cycles :
            (lifecycle = "destroyed" /\ Ends(c)) => state' = state]_vars

\* C9 (as claimed): a cycle of whose n calls k fail ends as a successful
\* cycle: error is null, loading is false, lastUpdated is set and data holds
\* exactly the assets of the n - k calls that succeeded.
C9_PartialFailureIsSuccess ==
    [][\A c \in DOMAIN cycles :
            Ends(c) =>
                /\ state'.error = None
                /\ state'.loading = FALSE
                /\ state'.lastUpdated # None
                /\ AssetsOf(state'.data) = {calls'[<<c, i>>].asset :
                        i \in {j \in 1..batches[c].n :
                                    calls'[<<c, j>>].pc = "fulfilled"}}
                /\ cycles'[c].outcome = "success"]_vars

\* the newest call for the asset, 0 when there is none
NewestCycleOf(asset) ==
    LET cs == {c \in DOMAIN cycles :
                    \E i \in 1..batches[c].n : calls[<<c, i>>].asset = asset}
    IN  IF cs = {} THEN 0 ELSE CHOOSE c \in cs : \A d \in cs : d <= c

\* C10 (as claimed): in every state, an asset whose most recent fetch (the
\* call of the newest cycle) has failed is absent from data.
C10_DataOnlyMostRecentSuccess ==
    \A k \in 1..Len(state.data) :
        LET asset == state.data[k].asset
            c     == NewestCycleOf(asset)
        IN  \A i \in 1..batches[c].n :
                calls[<<c, i>>].asset = asset => calls[<<c, i>>].pc # "rejected"

\* cycle c ended successfully and data is what it published: one item for
\* each call of c that succeeded, stamped with the time of c's requests
PublishedBy(c) ==
    /\ cycles[c].pc = "done"
    /\ cycles[c].outcome = "success"
    /\ Len(state.data) = Cardinality(
            {j \in 1..batches[c].n : calls[<<c, j>>].pc = "fulfilled"})
    /\ {<<state.data[k].asset, state.data[k].lastUpdated>> :
            k \in 1..Len(state.data)}
        = {<<a, cycles[c].startedAt>> : a \in FulfilledAssets(c)}

\* C10 (amended): in every state, data is the initial empty list or holds
\* exactly the assets whose fetch succeeded and validated in one cycle that
\* ended successfully; an asset whose fetch failed in that cycle is absent.
C10_DataIsSuccessesOfOneCycle ==
    \/ state.data = <<>> /\ state.lastUpdated = None
    \/ \E c \in DOMAIN cycles : PublishedBy(c)

\* C10 witness: data holds the one asset of a cycle whose other fetch failed
C10_Witness ==
    \E c \in DOMAIN cycles :
        /\ PublishedBy(c)
        /\ Len(state.data) = 1
        /\ \E i \in 1..batches[c].n : calls[<<c, i>>].pc = "rejected"

\* cycle c starts in this step
Starts(c) == c \notin DOMAIN cycles /\ c \in DOMAIN cycles'

\* the two lists hold the same items, in any order
SameItems(a, b) ==
    /\ Len(a) = Len(b)
    /\ {a[k] : k \in 1..Len(a)} = {b[k] : k \in 1..Len(b)}

\* the transformed responses of the (settled) batch of cycle c
ResultOf(bs, c) == MapTransform(bs[c].value)

\* another loadData can be started within the bounds of the model
RoomForCycle ==
    /\ Cardinality(DOMAIN cycles) + 1 <= MaxCycles
    /\ (Cardinality(DOMAIN cycles) + 1) * Len(config.assets) <= MaxCalls

\* C11: cycles are not serialized: the timer can start a cycle whenever it
\* is scheduled, a cycle being in flight or not, and every cycle that ends
\* successfully replaces data by its own result, also when a cycle that
\* started later has already published.
C11_OlderCycleOverwritesNewer ==
    /\ []((timerActive /\ RoomForCycle) => ENABLED TimerTick)
    /\ [][\A c \in DOMAIN cycles :
            (Ends(c) /\ cycles'[c].outcome = "success")
                => SameItems(state'.data, ResultOf(batches', c))]_vars

\* C11 witness: cycle c started before cycle d, d published first, and data
\* holds the result of c, which replaced that of d
C11_Witness ==
    \E c, d \in DOMAIN cycles :
        /\ cycles[c].startedAt < cycles[d].startedAt
        /\ cycles[d].startedAt < cycles[c].endedAt
        /\ cycles[c].outcome = "success" /\ cycles[d].outcome = "success"
        /\ cycles[d].endedAt < cycles[c].endedAt
        /\ \A e \in DOMAIN cycles : cycles[e].endedAt <= cycles[c].endedAt
        /\ state.lastUpdated = Some(cycles[c].endedAt)
        /\ SameItems(state.data, ResultOf(batches, c))
        /\ ~SameItems(state.data, ResultOf(batches, d))

\* the configured interval is present and greater than 0
IntervalSet ==
    config.refreshInterval # None /\ The(config.refreshInterval) > 0

\* C12: once the component is destroyed no cycle starts any more.
C12_NoCycleAfterStop ==
    [][lifecycle = "destroyed" => DOMAIN cycles' = DOMAIN cycles]_vars

\* C12 witness: the component was destroyed after its timer had been
\* scheduled with a positive interval, and another cycle would fit the
\* bounds
C12_Witness ==
    /\ lifecycle = "destroyed"
    /\ IntervalSet
    /\ refreshInterval # None
    /\ ~timerActive
    /\ RoomForCycle

\* C13: onMount starts the first cycle at once, before any tick, and
\* schedules the timer if and only if the interval is present and greater
\* than 0; without such an interval every further cycle is a manual refresh.
C13_MountStartsAndSchedules ==
    /\ lifecycle = "created" => cycles = EmptyMap /\ ~timerActive
    /\ lifecycle # "created" =>
        /\ 1 \in DOMAIN cycles
        /\ cycles[1].by = "mount"
        /\ cycles[1].startedAt = 1
    /\ lifecycle = "mounted" => (timerActive <=> IntervalSet)
    /\ \A c \in DOMAIN cycles :
        /\ cycles[c].by = "mount" => c = 1
        /\ cycles[c].by = "timer" => IntervalSet
        /\ (~IntervalSet /\ c > 1) => cycles[c].by = "click"

\* C13 witness: mounted with an interval of 0, the one cycle has ended and
\* no timer is scheduled
C13_Witness ==
    /\ config.refreshInterval = Some(0)
    /\ lifecycle = "mounted"
    /\ DOMAIN cycles = {1}
    /\ cycles[1].pc = "done"
    /\ ~timerActive

\* C14: the store is data=[], loading=true, error=null, lastUpdated=null
\* before the first cycle; a cycle that starts sets loading=true and
\* error=null and then issues its fetches, leaving data and lastUpdated; a
\* cycle that ends successfully replaces data by its transformed responses
\* and sets loading=false and lastUpdated to the time it ends.
C14_CycleSteps ==
    /\ state = [data |-> <<>>, loading |-> TRUE, error |-> None,
                lastUpdated |-> None]
    /\ [][\A c \in DOMAIN cycles' :
            /\ Starts(c) =>
                /\ state'.loading = TRUE
                /\ state'.error = None
                /\ state'.data = state.data
                /\ state'.lastUpdated = state.lastUpdated
                /\ \A i \in 1..Len(config.assets) :
                    /\ <<c, i>> \notin DOMAIN calls
                    /\ calls'[<<c, i>>].pc = "fetch"
                    /\ calls'[<<c, i>>].attempts = 1
            /\ (c \in DOMAIN cycles /\ Ends(c) /\ cycles'[c].outcome = "success") =>
                /\ SameItems(state'.data, ResultOf(batches', c))
                /\ state'.loading = FALSE
                /\ state'.lastUpdated = Some(clock')
                /\ clock' = clock + 1]_vars

\* C14 witness: a cycle that started after an error cycle had ended has
\* ended successfully and published its items
C14_Witness ==
    \E c, d \in DOMAIN cycles :
        /\ cycles[d].outcome = "error"
        /\ cycles[d].endedAt < cycles[c].startedAt
        /\ cycles[c].outcome = "success"
        /\ state.lastUpdated = Some(cycles[c].endedAt)
        /\ state.error = None
        /\ ~state.loading
        /\ Len(state.data) >= 1

\* the transformation of a response of cycle c throws (calls cs)
ThrowsIn(cs, c) ==
    \E i \in 1..Len(config.assets) :
        /\ cs[<<c, i>>].pc = "fulfilled"
        /\ TransformThrows(The(cs[<<c, i>>].value))

\* C15: a cycle in which a transformation throws ends as an error cycle:
\* loading=false, error is the message of what was thrown, data and
\* lastUpdated are left; a cycle in which none throws does not touch error,
\* however many of its fetches failed.
C15_ThrowEndsCycleInError ==
    [][\A c \in DOMAIN cycles :
        Ends(c) =>
            IF ThrowsIn(calls', c)
            THEN /\ state'.loading = FALSE
                 /\ state'.error = TransformError
                 /\ state'.data = state.data
                 /\ state'.lastUpdated = state.lastUpdated
            ELSE /\ state'.error = state.error
                 /\ state'.lastUpdated = Some(clock')]_vars

\* C15 witness: a cycle has ended in error, one response not transforming
\* and the other fetch failed
C15_Witness ==
    \E c \in DOMAIN cycles :
        /\ cycles[c].pc = "done"
        /\ ThrowsIn(calls, c)
        /\ \E i \in 1..Len(config.assets) : calls[<<c, i>>].pc = "rejected"
        /\ state.error = TransformError
        /\ ~state.loading

\* C16 (as claimed): a response that passes validation is transformed
\* without an error, a pillar without a components list contributing
\* nothing, and the cycle that contains it is successful.
C16_MalformedPillarTolerated ==
    /\ \A id \in DOMAIN calls :
        calls[id].pc = "fulfilled" => ~TransformThrows(The(calls[id].value))
    /\ \A c \in DOMAIN cycles :
        (cycles[c].pc = "done" /\ \E i \in 1..Len(config.assets) :
                                    calls[<<c, i>>].pc = "fulfilled")
            => cycles[c].outcome = "success"

\* C17: in every state data is the initial empty list or the complete
\* transformed result of exactly one cycle: never a part of one, never
\* items of two.
C17_DataIsOneWholeResult ==
    \/ state.data = <<>>
    \/ \E c \in DOMAIN cycles :
        /\ cycles[c].pc = "done"
        /\ cycles[c].outcome = "success"
        /\ SameItems(state.data, ResultOf(batches, c))

\* C17 witness: two overlapping cycles have both published, the later one
\* fewer items than the earlier one, and data is the whole result of one
C17_Witness ==
    \E c, d \in DOMAIN cycles :
        /\ cycles[c].startedAt < cycles[d].startedAt
        /\ cycles[d].startedAt < cycles[c].endedAt
        /\ cycles[c].outcome = "success" /\ cycles[d].outcome = "success"
        /\ cycles[c].endedAt < cycles[d].endedAt
        /\ Len(ResultOf(batches, c)) = 2
        /\ Len(ResultOf(batches, d)) = 1
        /\ SameItems(state.data, ResultOf(batches, d))

\* C18 (as claimed): data changes only when a cycle that ends successfully
\* replaces it by its transformed responses; nothing else changes the
\* content or the order of the list, the sorted view included.
C18_DataOnlyReplacedWholesale ==
    [][\/ state'.data = state.data
       \/ \E c \in DOMAIN cycles :
            /\ Ends(c)
            /\ cycles'[c].outcome = "success"
            /\ state'.data = ResultOf(batches', c)]_vars

\* the example of the transformation: scale [-24,24], sentiment{cot:2,
\* retailPos:2}, technical{trend:2}, economic{gdp:1}
ExampleResponse == ResponseWith(<<-24, 24>>, 2, 2, 2, 1)

\* C19 (as claimed): transformBackendResponse of the example response yields
\* sentiment={cot:2, retailPos:2}, technical={trend:2}, economic={gdp:1}.
C19_ExampleKeepsComponentScores ==
    (result # None /\ The(args).fn = "transformBackendResponse"
                   /\ The(args).response = ExampleResponse)
        => /\ The(result).sentiment = Put(Put(EmptyMap, "cot", 2), "retailPos", 2)
           /\ The(result).technical = Put(EmptyMap, "trend", 2)
           /\ The(result).economic = Put(EmptyMap, "gdp", 1)

\* C20: normalizeScore returns one of -2, -1, 0, 1, 2, and for min < max
\* the greater of two scores never gets the smaller value, scores outside
\* [min, max] included; every entry of the sentiment, technical and economic
\* maps of a transformed response is one of the five values.
C20_NormalizeScoreBucketsMonotone ==
    result # None =>
        IF The(args).fn = "normalizeScore"
        THEN LET a == The(args)
                 r == The(result)
             IN  /\ \A k \in 1..2 : r[k] \in -2..2
                 /\ (a.scale[1] < a.scale[2] /\ a.scores[1] <= a.scores[2])
                        => r[1] <= r[2]
        ELSE LET r == The(result)
             IN  /\ \A key \in DOMAIN r.sentiment : r.sentiment[key] \in -2..2
                 /\ \A key \in DOMAIN r.technical : r.technical[key] \in -2..2
                 /\ \A key \in DOMAIN r.economic : r.economic[key] \in -2..2

\* C20 witness: with min < max a score below min got -2 and a score above
\* max got 2
C20_Witness ==
    /\ result # None
    /\ The(args).fn = "normalizeScore"
    /\ The(args).scale[1] < The(args).scale[2]
    /\ The(args).scores[1] < The(args).scale[1]
    /\ The(args).scores[2] > The(args).scale[2]
    /\ The(result) = <<-2, 2>>

\* C21: for min < max, with n = score - min and d = max - min (t = n / d),
\* normalizeScore is -2 exactly for t <= 0.1, -1 for 0.1 < t <= 0.3, 0 for
\* 0.3 < t <= 0.7, 1 for 0.7 < t <= 0.9 and 2 for t > 0.9; so score = min
\* gives -2, score = max gives 2 and the midpoint gives 0.
C21_BucketsOfT ==
    (result # None /\ The(args).fn = "normalizeScore"
                   /\ The(args).scale[1] < The(args).scale[2])
        => \A k \in 1..2 :
            LET min == The(args).scale[1]
                max == The(args).scale[2]
                n   == The(args).scores[k] - min
                d   == max - min
                r   == The(result)[k]
            IN  /\ r = -2 <=> 10 * n <= d
                /\ r = -1 <=> (d < 10 * n /\ 10 * n <= 3 * d)
                /\ r = 0 <=> (3 * d < 10 * n /\ 10 * n <= 7 * d)
                /\ r = 1 <=> (7 * d < 10 * n /\ 10 * n <= 9 * d)
                /\ r = 2 <=> 9 * d < 10 * n
                /\ n = 0 => r = -2
                /\ n = d => r = 2
                /\ 2 * n = d => r = 0

\* C21 witness: t is exactly 0.1 for the first score and exactly 0.9 for the
\* second, and the values are -2 and 1
C21_Witness ==
    /\ result # None
    /\ The(args).fn = "normalizeScore"
    /\ The(args).scale[1] < The(args).scale[2]
    /\ 10 * (The(args).scores[1] - The(args).scale[1])
            = The(args).scale[2] - The(args).scale[1]
    /\ 10 * (The(args).scores[2] - The(args).scale[1])
            = 9 * (The(args).scale[2] - The(args).scale[1])
    /\ The(result) = <<-2, 1>>

\* a transformBackendResponse call has returned
Transformed ==
    /\ result # None
    /\ The(args).fn = "transformBackendResponse"
    /\ "error" \notin DOMAIN The(result)

\* C22: the bias of a transformed response is Very Bullish for a total score
\* of 15 or more, Bullish for 8..14, Neutral for -7..7, Bearish for -15..-8
\* and Very Bearish below, whatever the scale of the response.
C22_BiasByFixedThresholds ==
    Transformed =>
        LET score == The(args).response.score
            bias  == The(result).bias
        IN  /\ bias = "Very Bullish" <=> score >= 15
            /\ bias = "Bullish" <=> (8 <= score /\ score <= 14)
            /\ bias = "Neutral" <=> (-7 <= score /\ score <= 7)
            /\ bias = "Bearish" <=> (-15 <= score /\ score <= -8)
            /\ bias = "Very Bearish" <=> score <= -16

\* C22 witness: a total score of -16 on the scale [-1, 1] is Very Bearish
C22_Witness ==
    /\ Transformed
    /\ The(args).response.score = -16
    /\ The(args).response.scale.items = <<-1, 1>>
    /\ The(result).bias = "Very Bearish"

\* the spellings of the name of map m
Spellings(m) ==
    CASE m = "sentiment" -> {"sentiment", "Sentiment", "SENTIMENT"}
      [] m = "technical" -> {"technical", "Technical"}
      [] m = "economic"  -> {"economic", "Economic"}

\* the keys of the components of the pillars named by a spelling of m
KeysFor(pillars, m) ==
    UNION {{pillars[i].components[j].key : j \in 1..Len(pillars[i].components)} :
            i \in {x \in 1..Len(pillars) : pillars[x].name \in Spellings(m)}}

\* C23: transformBackendResponse returns without an error, and each of its
\* three maps has exactly the keys of the pillars whose name is a spelling
\* of the map's name in any case; a pillar of another name adds no entry.
C23_PillarNameCaseInsensitive ==
    (result # None /\ The(args).fn = "transformBackendResponse") =>
        /\ "error" \notin DOMAIN The(result)
        /\ \A m \in {"sentiment", "technical", "economic"} :
            DOMAIN The(result)[m] = KeysFor(The(args).response.pillars.items, m)

\* C23 witness: the pillars are named Sentiment, macro and economic; the
\* sentiment map has the keys of the first, the technical map is empty
C23_Witness ==
    /\ Transformed
    /\ The(args).response.pillars.items[1].name = "Sentiment"
    /\ The(args).response.pillars.items[2].name = "macro"
    /\ The(args).response.pillars.items[3].name = "economic"
    /\ DOMAIN The(result).sentiment = {"cot", "retailPos"}
    /\ The(result).technical = EmptyMap
    /\ DOMAIN The(result).economic = {"gdp"}

\* C24: the asset record of a transformed response has the response's total
\* score and asset symbol as they are.
C24_ScoreAndAssetUnchanged ==
    Transformed =>
        /\ The(result).score = The(args).response.score
        /\ The(result).asset = The(args).response.asset

\* C24 witness: a total score outside the scale of its response is kept
C24_Witness ==
    /\ Transformed
    /\ The(args).response.asset = "EUR"
    /\ The(args).response.scale.items = <<-1, 1>>
    /\ The(args).response.score = MaxTotalScore
    /\ The(result).score = MaxTotalScore

\* the first of the required keys, in their order, that is not in keys
FirstAbsent(keys) ==
    required[CHOOSE i \in 1..Len(required) :
                /\ required[i] \notin keys
                /\ \A j \in 1..(i - 1) : required[j] \in keys]

C26_ScaleElementsNumeric ==
    (result # None /\ The(args).fn = "validateResponse"
                   /\ The(args).kind = "object"
                   /\ The(args).keys = RequiredKeys
                   /\ The(args).pillars \in {"array", "empty"})
        => (The(result).ok <=> The(args).scale = "pair")

\* C27 (as claimed): while a cycle is in flight, loading is true, also when
\* cycles overlap and one of them ends first.
C27_LoadingWhileInFlight ==
    (\E c \in DOMAIN cycles : cycles[c].pc = "awaiting") => state.loading

\* C28 (as claimed): a cycle that ends successfully leaves error = null,
\* also when an overlapping cycle failed after it had started.
C28_SuccessClearsError ==
    [][\A c \in DOMAIN cycles :
            (Ends(c) /\ cycles'[c].outcome = "success")
                => state'.error = None]_vars

\* C29: a cycle that ends in error leaves data and lastUpdated as they were,
\* and lastUpdated changes only in a step in which a cycle ends
\* successfully.
C29_ErrorCycleKeepsData ==
    [][/\ \A c \in DOMAIN cycles :
            (Ends(c) /\ cycles'[c].outcome = "error")
                => /\ state'.data = state.data
                   /\ state'.lastUpdated = state.lastUpdated
       /\ state'.lastUpdated # state.lastUpdated
            => \E c \in DOMAIN cycles :
                    Ends(c) /\ cycles'[c].outcome = "success"]_vars

\* C29 witness: the cycle that ended last ended in error, and data and
\* lastUpdated are those of the successful cycle before it
C29_Witness ==
    \E c, d \in DOMAIN cycles :
        /\ cycles[c].outcome = "success"
        /\ cycles[d].outcome = "error"
        /\ cycles[c].endedAt < cycles[d].endedAt
        /\ \A e \in DOMAIN cycles : cycles[e].endedAt <= cycles[d].endedAt
        /\ Len(state.data) >= 1
        /\ SameItems(state.data, ResultOf(batches, c))
        /\ state.lastUpdated = Some(cycles[c].endedAt)
        /\ state.error = TransformError
        /\ ~state.loading

\* C30: a getHeatmap call stops at the first attempt that succeeds: a
\* fulfilled call has made one attempt more than it caught errors, at most
\* 1 + maxRetries, has waited once per error and holds the payload of that
\* attempt; a rejected call has made 1 + maxRetries attempts, all failed;
\* and a settled call makes no further attempt and no further wait.
C30_StopsAtFirstSuccess ==
    /\ [](\A id \in DOMAIN calls :
            LET call == calls[id]
            IN  /\ call.pc = "fulfilled" =>
                    /\ call.attempts = Len(call.caught) + 1
                    /\ call.attempts <= 1 + apiClient.maxRetries
                    /\ Len(call.waits) = Len(call.caught)
                    /\ The(call.value) \in
                            {WellFormed(call.asset, call.startedAt),
                             NoComponents(call.asset, call.startedAt)}
                /\ call.pc = "rejected" =>
                    /\ call.attempts = 1 + apiClient.maxRetries
                    /\ Len(call.caught) = call.attempts)
    /\ [][\A id \in DOMAIN calls :
            Settled(calls[id]) => calls'[id] = calls[id]]_vars

\* C30 witness: a call succeeded at its second attempt although its limit
\* allowed more
C30_Witness ==
    \E id \in DOMAIN calls :
        /\ calls[id].pc = "fulfilled"
        /\ calls[id].attempts = 2
        /\ Len(calls[id].caught) = 1
        /\ calls[id].waits = <<1000>>
        /\ apiClient.maxRetries >= 2

\* every retry chain of cycle c has ended within the limit, its batch has
\* settled and the cycle has ended with loading = false
Completed(c) ==
    /\ cycles[c].pc = "done"
    /\ batches[c].status # "pending"
    /\ \A i \in 1..Len(config.assets) :
        /\ Settled(calls[<<c, i>>])
        /\ calls[<<c, i>>].attempts <= 1 + apiClient.maxRetries
    /\ ~state.loading

\* C31: when every fetch is answered and every backoff delay elapses, every
\* cycle that has started ends: each of its retry chains ends after at most
\* 1 + maxRetries attempts, its batch settles and the cycle leaves
\* loading = false, as a success or as an error.
C31_EveryCycleCompletes ==
    \A c \in 1..MaxCycles :
        (c \in DOMAIN cycles /\ cycles[c].pc = "awaiting")
            ~> (c \in DOMAIN cycles /\ Completed(c))

\* C31 witness: a cycle has ended in error after one of its calls had used
\* up its retries, and loading is false
C31_Witness ==
    \E c \in DOMAIN cycles :
        /\ Completed(c)
        /\ cycles[c].outcome = "error"
        /\ \E i \in 1..Len(config.assets) :
            /\ calls[<<c, i>>].pc = "rejected"
            /\ calls[<<c, i>>].attempts = 1 + apiClient.maxRetries
            /\ calls[<<c, i>>].attempts > 1

====
